---- MODULE Spec2Model ----
(***************************************************************************)
(* A model of convert_shp.py: the batch conversion of the shapefiles of    *)
(* shp_input into shp_output (CRS normalisation, Z correction by the geoid *)
(* undulation, field renaming).                                            *)
(*                                                                         *)
(* Three specifications share the module:                                  *)
(*   Spec       the whole script: the module-level geoid check and main()  *)
(*   SpecZFix   z_fix applied to one geometry drawn from a bounded set     *)
(*   SpecRename DataFrame.rename(columns=RENAME_FIELDS) applied to one     *)
(*              attribute table drawn from a bounded set, once and twice   *)
(***************************************************************************)
EXTENDS Integers, Sequences, FiniteSets, TLC

VARIABLES
    pc,           \* position of the script
    gtx_exists,   \* GTX_PATH.exists()
    fs,           \* the file system: path -> file content
    shp_files,    \* the list glob.glob returned
    idx,          \* position of the for loop in shp_files
    gdf,          \* the GeoDataFrame of the file being converted
    exit_status,  \* "running", "zero" or "nonzero"
    stdout,       \* what the script printed
    zpc, geom, zret,      \* SpecZFix: the call z_fix(geom) and its result
    rpc, df, ret1, ret2   \* SpecRename: rename applied once and twice to df

vars == <<pc, gtx_exists, fs, shp_files, idx, gdf, exit_status, stdout,
          zpc, geom, zret, rpc, df, ret1, ret2>>
mainVars == <<pc, gtx_exists, fs, shp_files, idx, gdf, exit_status, stdout>>
zVars == <<zpc, geom, zret>>
rVars == <<rpc, df, ret1, ret2>>

(***************************************************************************)
(* Bounds of the model.                                                    *)
(***************************************************************************)
MaxX == 1        \* eastings are 0..MaxX
MaxY == 1        \* northings are 0..MaxY
MaxZ == 1        \* heights are 0..MaxZ
MaxPts == 3      \* a LineString has 2..MaxPts coordinates
MaxParts == 2    \* a multi-geometry has 1..MaxParts parts
MaxCols == 2     \* an attribute table has 0..MaxCols columns
MaxFiles == 3    \* shp_input holds 0..MaxFiles files

(***************************************************************************)
(* Configuration constants of the script.                                  *)
(***************************************************************************)
SRC_DIR == "shp_input"
OUT_DIR == "shp_output"
TARGET_EPSG == 32652
APPLY_Z_FIX == TRUE
\* a CRS is <<epsg>>; gdf.crs is None is <<>>
NoCRS == <<>>
CRS_TARGET == <<TARGET_EPSG>>

RenameKeys ==
    {"id", "linkid", "l_linkid", "r_linkid", "tonodeid", "fromnodeid",
     "roadrank", "roadno", "laneno", "distance", "maxspeed"}
RENAME_FIELDS ==
    [k \in RenameKeys |->
        CASE k = "id" -> "ID"
          [] k = "linkid" -> "LinkID"
          [] k = "l_linkid" -> "L_LinkID"
          [] k = "r_linkid" -> "R_LinkID"
          [] k = "tonodeid" -> "ToNodeID"
          [] k = "fromnodeid" -> "FromNodeID"
          [] k = "roadrank" -> "RoadRank"
          [] k = "roadno" -> "RoadNo"
          [] k = "laneno" -> "LaneNo"
          [] k = "distance" -> "Distance"
          [] k = "maxspeed" -> "MaxSpeed"]

(***************************************************************************)
(* Geometries.  A coordinate is <<x, y>> or <<x, y, z>>.  A simple         *)
(* geometry holds its coordinate sequence, a multi-geometry the sequence   *)
(* of its parts; a null geometry (None) has neither.                       *)
(***************************************************************************)
Point(c) == [type |-> "Point", coords |-> <<c>>]
LineString(cs) == [type |-> "LineString", coords |-> cs]
Polygon(ring) == [type |-> "Polygon", coords |-> ring]
MultiPoint(ps) == [type |-> "MultiPoint", geoms |-> ps]
MultiLineString(ls) == [type |-> "MultiLineString", geoms |-> ls]
MultiPolygon(ps) == [type |-> "MultiPolygon", geoms |-> ps]
NoneGeom == [type |-> "None"]

isinstance(g, t) == g.type = t

\* geom.has_z: the coordinates of the geometry carry a third ordinate
has_z(g) ==
    IF "coords" \in DOMAIN g
    THEN Len(g.coords[1]) = 3
    ELSE Len(g.geoms[1].coords[1]) = 3

(***************************************************************************)
(* The two pyproj transformers.  to_wgs84 takes a position of the target   *)
(* CRS to longitude and latitude; vshift returns, for height 0, the value  *)
(* of the geoid grid at that longitude and latitude.  Both are library     *)
(* code: the model keeps that they are functions of the position, that     *)
(* to_wgs84 is no identity and that the grid value varies with both        *)
(* ordinates and is never 0.                                               *)
(***************************************************************************)
to_wgs84_transform(x, y) == <<126 + x, 37 + y>>
GeoidGrid(lon, lat) == 20 + 3 * (lon - 126) + 5 * (lat - 37)
vshift_transform(lon, lat, h) == <<lon, lat, h + GeoidGrid(lon, lat)>>

\* mutant of _ellip: the undulation is added twice
ellip_twice(c) ==
    LET lonlat == to_wgs84_transform(c[1], c[2])
        N == vshift_transform(lonlat[1], lonlat[2], 0)[3]
    IN  <<c[1], c[2], c[3] + N + N>>

ellip(c) ==
    LET x == c[1]
        y == c[2]
        z == c[3]
        lonlat == to_wgs84_transform(x, y)
        N == vshift_transform(lonlat[1], lonlat[2], 0)[3]
    IN  <<x, y, z + N>>

\* [_ellip(pt) for pt in coords]
ellip_all(cs) == [i \in DOMAIN cs |-> ellip(cs[i])]

\* mutant of z_fix: Polygon gets a branch of its own
z_fix_polygon(g) ==
    IF ~(APPLY_Z_FIX /\ has_z(g)) THEN g
    ELSE IF isinstance(g, "Point") THEN Point(ellip(g.coords[1]))
    ELSE IF isinstance(g, "LineString") \/ isinstance(g, "Polygon")
         THEN [type |-> g.type, coords |-> ellip_all(g.coords)]
    ELSE g

z_fix(g) ==
    IF ~(APPLY_Z_FIX /\ has_z(g)) THEN g
    ELSE IF isinstance(g, "Point") THEN Point(ellip(g.coords[1]))
    ELSE IF isinstance(g, "LineString") THEN LineString(ellip_all(g.coords))
    ELSE IF isinstance(g, "MultiPoint")
         THEN MultiPoint([i \in DOMAIN g.geoms |->
                             Point(ellip(g.geoms[i].coords[1]))])
    ELSE IF isinstance(g, "MultiLineString")
         THEN MultiLineString([i \in DOMAIN g.geoms |->
                                  LineString(ellip_all(g.geoms[i].coords))])
    ELSE g

(***************************************************************************)
(* The geometries z_fix is called with: what a shapefile holds (points,    *)
(* lines, polygons and their multi forms, with or without Z).              *)
(***************************************************************************)
Coords(dim) ==
    IF dim = 3
    THEN {<<x, y, z>> : x \in 0..MaxX, y \in 0..MaxY, z \in 0..MaxZ}
    ELSE {<<x, y>> : x \in 0..MaxX, y \in 0..MaxY}

Mirror(c) == [c EXCEPT ![1] = MaxX - c[1], ![2] = MaxY - c[2]]

SeqsOf(S, lo, hi) == UNION {[1..n -> S] : n \in lo..hi}

Lines(dim) == {LineString(cs) : cs \in SeqsOf(Coords(dim), 2, MaxPts)}
Segments(dim) == {LineString(<<c, Mirror(c)>>) : c \in Coords(dim)}
Polygons(dim) ==
    {Polygon(<<c, d, Mirror(d), c>>) : c \in Coords(dim), d \in Coords(dim)}
Triangles(dim) ==
    {Polygon(<<c, Mirror(c), [c EXCEPT ![1] = MaxX - c[1]], c>>) :
        c \in Coords(dim)}

Points(dim) == {Point(c) : c \in Coords(dim)}
MultiPoints(dim) == {MultiPoint(ps) : ps \in SeqsOf(Points(dim), 1, MaxParts)}
MultiLineStrings(dim) ==
    {MultiLineString(ls) : ls \in SeqsOf(Segments(dim), 1, MaxParts)}
MultiPolygons(dim) ==
    {MultiPolygon(ps) : ps \in SeqsOf(Triangles(dim), 1, MaxParts)}

\* g is one of the geometries of dimension dim
IsGeom(g, dim) ==
    \/ g \in Points(dim)
    \/ g \in Lines(dim)
    \/ g \in Polygons(dim)
    \/ g \in MultiPoints(dim)
    \/ g \in MultiLineStrings(dim)
    \/ g \in MultiPolygons(dim)

(***************************************************************************)
(* The attribute table of a GeoDataFrame: its column names, in order, and  *)
(* the rows of values under them.  rename(columns=RENAME_FIELDS,           *)
(* errors="ignore") replaces each column name that is a key of the table   *)
(* by the mapped name and leaves every other name, and all values, alone.  *)
(***************************************************************************)
\* mutant of rename: the lookup ignores case for the key "id"
rename_nocase(d) ==
    [d EXCEPT !.columns =
        [i \in DOMAIN d.columns |->
            IF d.columns[i] \in DOMAIN RENAME_FIELDS
            THEN RENAME_FIELDS[d.columns[i]]
            ELSE IF d.columns[i] = "Id" THEN "ID"
            ELSE d.columns[i]]]

\* mutant of rename: the table also maps a target name back
rename_back(d) ==
    [d EXCEPT !.columns =
        [i \in DOMAIN d.columns |->
            IF d.columns[i] \in DOMAIN RENAME_FIELDS
            THEN RENAME_FIELDS[d.columns[i]]
            ELSE IF d.columns[i] = "L_LinkID" THEN "l_linkid"
            ELSE d.columns[i]]]

rename(d) ==
    [d EXCEPT !.columns =
        [i \in DOMAIN d.columns |->
            IF d.columns[i] \in DOMAIN RENAME_FIELDS
            THEN RENAME_FIELDS[d.columns[i]]
            ELSE d.columns[i]]]

\* the column names and values of the tables rename is called with
FieldNames == {"id", "ID", "Id", "l_linkid", "L_LinkID", "maxspeed", "name"}
FieldValues == {"A1", "B2"}
Injective(s) == \A i, j \in DOMAIN s : s[i] = s[j] => i = j
Tables ==
    {[columns |-> cols, data |-> <<row>>] :
        <<cols, row>> \in
            UNION {{c \in [1..n -> FieldNames] : Injective(c)}
                      \X [1..n -> FieldValues] : n \in 0..MaxCols}}

(***************************************************************************)
(* File names and paths.  A file name is the sequence of its character     *)
(* codes; a path is <<directory, name>>.                                   *)
(***************************************************************************)
Dot == <<46>>
ShpSuffix == <<46, 115, 104, 112>>                 \* ".shp"
InputNames ==
    {<<97>> \o ShpSuffix,                          \* "a.shp"
     <<65>> \o ShpSuffix,                          \* "A.shp"
     <<98, 49>> \o ShpSuffix,                      \* "b1.shp"
     <<97, 46, 100, 98, 102>>}                     \* "a.dbf"

\* str.upper on the characters of the names
upper_char(c) == IF c >= 97 /\ c <= 122 THEN c - 32 ELSE c
upper(s) == [i \in DOMAIN s |-> upper_char(s[i])]

\* name.rfind("."), 1-based; 0 when the name has no dot
rfind_dot(name) ==
    LET dots == {i \in DOMAIN name : <<name[i]>> = Dot}
    IN  IF dots = {} THEN 0 ELSE CHOOSE i \in dots : \A j \in dots : j <= i

\* Path.suffix and Path.stem
suffix(name) ==
    LET i == rfind_dot(name)
    IN  IF i > 1 /\ i < Len(name) THEN SubSeq(name, i, Len(name)) ELSE <<>>
stem(name) == SubSeq(name, 1, Len(name) - Len(suffix(name)))

\* fnmatch(name, "*.shp")
matches_shp(name) ==
    /\ Len(name) >= Len(ShpSuffix)
    /\ SubSeq(name, Len(name) - Len(ShpSuffix) + 1, Len(name)) = ShpSuffix

\* mutant of out_path: the file is written beside the input
out_path_in_src(name) == <<SRC_DIR, upper(stem(name)) \o suffix(name)>>

\* OUT_DIR / f"{src_path.stem.upper()}{src_path.suffix}"
out_path(name) == <<OUT_DIR, upper(stem(name)) \o suffix(name)>>

Names == InputNames \cup {upper(stem(n)) \o suffix(n) : n \in InputNames}
Paths == {SRC_DIR, OUT_DIR} \X Names

(***************************************************************************)
(* File contents.  A dataset read by gpd.read_file is a layer: its CRS,    *)
(* its attribute table and its geometry column, one geometry per row.      *)
(***************************************************************************)
Absent == [kind |-> "absent"]
Corrupt == [kind |-> "corrupt"]      \* a .shp that read_file cannot read
Partial == [kind |-> "partial"]      \* what a failed to_file may leave
Sidecar == [kind |-> "other"]        \* a file that is no .shp
NoGdf == [kind |-> "none"]
CRS_OTHER == <<5186>>

Layer(crs, cols, data, geometry) ==
    [kind |-> "layer", crs |-> crs, columns |-> cols, data |-> data,
     geometry |-> geometry]

SampleLayers ==
    {Layer(NoCRS, <<"l_linkid">>, <<<<"A1">>>>,
           <<LineString(<<<<0, 0, 0>>, <<1, 1, 1>>>>)>>),
     Layer(CRS_OTHER, <<"id", "name">>, <<<<"A1", "B2">>, <<"B2", "B2">>>>,
           <<Point(<<1, 0, 1>>),
             Polygon(<<<<0, 0, 1>>, <<1, 0, 1>>, <<1, 1, 1>>, <<0, 0, 1>>>>)>>),
     Layer(CRS_TARGET, <<"ID", "maxspeed">>, <<<<"A1", "B2">>, <<"B2", "A1">>>>,
           <<MultiPoint(<<Point(<<0, 1, 0>>), Point(<<1, 1, 1>>)>>),
             Point(<<0, 1>>)>>),
     Layer(CRS_TARGET, <<"name">>, <<<<"A1">>, <<"B2">>>>,
           <<Point(<<0, 0, 1>>), NoneGeom>>)}

ShpContents == SampleLayers \cup {Corrupt}

(***************************************************************************)
(* gdf.to_crs(CRS_TARGET): every position is transformed from the source   *)
(* CRS to the target CRS, heights and null geometries are kept.  The       *)
(* transformation is library code; the model keeps that it is a function   *)
(* of the source CRS and the position and, for a CRS other than the        *)
(* target, moves the position.                                             *)
(***************************************************************************)
transform_xy(crs, c) ==
    IF crs = CRS_TARGET THEN c
    ELSE [c EXCEPT ![1] = c[1] + 2, ![2] = c[2] + 3]

to_crs_geom(crs, g) ==
    IF "coords" \in DOMAIN g
    THEN [g EXCEPT !.coords = [i \in DOMAIN g.coords |->
                                  transform_xy(crs, g.coords[i])]]
    ELSE IF "geoms" \in DOMAIN g
    THEN [g EXCEPT !.geoms = [k \in DOMAIN g.geoms |->
            [g.geoms[k] EXCEPT !.coords =
                [i \in DOMAIN g.geoms[k].coords |->
                    transform_xy(crs, g.geoms[k].coords[i])]]]]
    ELSE g

to_crs(d) ==
    [d EXCEPT !.crs = CRS_TARGET,
              !.geometry = [i \in DOMAIN d.geometry |->
                               to_crs_geom(d.crs, d.geometry[i])]]

set_crs(d) == [d EXCEPT !.crs = CRS_TARGET]

\* mutant of normalize_crs: a defined CRS is relabelled, not reprojected
normalize_crs_relabel(d) == set_crs(d)
\* Task 1 of main
normalize_crs(d) ==
    IF d.crs = NoCRS THEN set_crs(d)
    ELSE IF d.crs # CRS_TARGET THEN to_crs(d)
    ELSE d

(***************************************************************************)
(* The script.                                                             *)
(***************************************************************************)
Listing == {n \in InputNames : fs[<<SRC_DIR, n>>] # Absent}
\* the names glob.glob(SRC_DIR / "*.shp") finds
Matching == {n \in Listing : matches_shp(n)}
Orders(S) ==
    {o \in [1..Cardinality(S) -> S] : \A i, j \in DOMAIN o : o[i] = o[j] => i = j}

IdleZ == zpc = "idle" /\ geom = NoneGeom /\ zret = NoneGeom
IdleR == rpc = "idle" /\ df = NoGdf /\ ret1 = NoGdf /\ ret2 = NoGdf
IdleMain ==
    /\ pc = "idle" /\ gtx_exists = TRUE /\ fs = [p \in Paths |-> Absent]
    /\ shp_files = <<>> /\ idx = 0 /\ gdf = NoGdf
    /\ exit_status = "running" /\ stdout = <<>>

Init ==
    /\ pc = "start"
    /\ gtx_exists \in BOOLEAN
    /\ \E S \in SUBSET InputNames :
          /\ Cardinality(S) <= MaxFiles
          /\ \E c \in [{n \in S : matches_shp(n)} -> ShpContents] :
                fs = [p \in Paths |->
                        IF p[1] = SRC_DIR /\ p[2] \in S
                        THEN IF matches_shp(p[2]) THEN c[p[2]] ELSE Sidecar
                        ELSE Absent]
    /\ shp_files = <<>>
    /\ idx = 0
    /\ gdf = NoGdf
    /\ exit_status = "running"
    /\ stdout = <<>>
    /\ IdleZ /\ IdleR

\* sys.exit(message): the message goes to stderr, the status is 1
SysExit ==
    /\ pc' = "aborted"
    /\ exit_status' = "nonzero"

\* an exception leaves main: traceback, status 1
Raise ==
    /\ pc' = "crashed"
    /\ exit_status' = "nonzero"

\* mutant of CheckGtx: the script goes on without the grid
CheckGtxSkip ==
    /\ pc = "start"
    /\ pc' = "main"
    /\ UNCHANGED <<gtx_exists, fs, shp_files, idx, gdf, exit_status, stdout>>
    /\ UNCHANGED <<zVars, rVars>>

\* the module-level check of GTX_PATH (OUT_DIR.mkdir creates no file)
CheckGtx ==
    /\ pc = "start"
    /\ IF ~gtx_exists
       THEN SysExit
       ELSE pc' = "main" /\ UNCHANGED exit_status
    /\ UNCHANGED <<gtx_exists, fs, shp_files, idx, gdf, stdout>>
    /\ UNCHANGED <<zVars, rVars>>

\* main: glob and the check of its result; the order is the directory's
Glob ==
    /\ pc = "main"
    /\ \E o \in Orders(Matching) :
          /\ shp_files' = o
          /\ IF o = <<>>
             THEN SysExit /\ UNCHANGED idx
             ELSE pc' = "load" /\ idx' = 1 /\ UNCHANGED exit_status
    /\ UNCHANGED <<gtx_exists, fs, gdf, stdout>>
    /\ UNCHANGED <<zVars, rVars>>

\* the loop body up to Task 1: print, read_file, CRS assigned or reprojected
Load ==
    /\ pc = "load"
    /\ LET name == shp_files[idx]
           file == fs[<<SRC_DIR, name>>]
       IN  /\ stdout' = Append(stdout, <<"start", name>>)
           /\ IF file.kind # "layer"
              THEN Raise /\ UNCHANGED gdf
              ELSE /\ gdf' = normalize_crs(file)
                   /\ pc' = "zfix"
                   /\ UNCHANGED exit_status
    /\ UNCHANGED <<gtx_exists, fs, shp_files, idx>>
    /\ UNCHANGED <<zVars, rVars>>

\* gdf.geometry.apply(z_fix)
apply_z_fix(col) == [i \in DOMAIN col |-> z_fix(col[i])]

\* Task 2: z_fix applied to every geometry; a null geometry has no has_z
ZCorrect ==
    /\ pc = "zfix"
    /\ IF \E i \in DOMAIN gdf.geometry : gdf.geometry[i] = NoneGeom
       THEN Raise /\ UNCHANGED gdf
       ELSE /\ gdf' = [gdf EXCEPT !.geometry = apply_z_fix(gdf.geometry)]
            /\ pc' = "rename"
            /\ UNCHANGED exit_status
    /\ UNCHANGED <<gtx_exists, fs, shp_files, idx, stdout>>
    /\ UNCHANGED <<zVars, rVars>>

\* Task 3
Rename ==
    /\ pc = "rename"
    /\ gdf' = rename(gdf)
    /\ pc' = "write"
    /\ UNCHANGED <<gtx_exists, fs, shp_files, idx, exit_status, stdout>>
    /\ UNCHANGED <<zVars, rVars>>

\* mutant of Write: a failed write is caught and the loop goes on
WriteIsolated ==
    /\ pc = "write"
    /\ \E ok \in BOOLEAN :
          /\ fs' = IF ok THEN [fs EXCEPT ![out_path(shp_files[idx])] = gdf]
                   ELSE fs
          /\ stdout' = IF ok
                       THEN Append(stdout, <<"saved", out_path(shp_files[idx])[2]>>)
                       ELSE stdout
    /\ IF idx < Len(shp_files)
       THEN pc' = "load" /\ idx' = idx + 1
       ELSE pc' = "finish" /\ UNCHANGED idx
    /\ UNCHANGED <<gtx_exists, shp_files, gdf, exit_status>>
    /\ UNCHANGED <<zVars, rVars>>

\* Task 4 and the step of the loop.  to_file either writes the dataset or
\* raises, leaving the target as it was or incomplete.
Write ==
    /\ pc = "write"
    /\ LET target == out_path(shp_files[idx])
       IN  \/ /\ fs' = [fs EXCEPT ![target] = gdf]
              /\ stdout' = Append(stdout, <<"saved", target[2]>>)
              /\ IF idx < Len(shp_files)
                 THEN pc' = "load" /\ idx' = idx + 1
                 ELSE pc' = "finish" /\ UNCHANGED idx
              /\ UNCHANGED exit_status
           \/ /\ fs' \in {fs, [fs EXCEPT ![target] = Partial]}
              /\ Raise
              /\ UNCHANGED <<idx, stdout>>
    /\ UNCHANGED <<gtx_exists, shp_files, gdf>>
    /\ UNCHANGED <<zVars, rVars>>

\* the last print of main; the script ends with status 0
Finish ==
    /\ pc = "finish"
    /\ stdout' = Append(stdout, <<"done", <<>>>>)
    /\ pc' = "done"
    /\ exit_status' = "zero"
    /\ UNCHANGED <<gtx_exists, fs, shp_files, idx, gdf>>
    /\ UNCHANGED <<zVars, rVars>>

Next == CheckGtx \/ Glob \/ Load \/ ZCorrect \/ Rename \/ Write \/ Finish

Spec == Init /\ [][Next]_vars

(***************************************************************************)
(* z_fix on its own.                                                       *)
(***************************************************************************)
InitZFix ==
    /\ zpc = "call"
    /\ \E dim \in {2, 3} : IsGeom(geom, dim)
    /\ zret = NoneGeom
    /\ IdleMain /\ IdleR

ZFixCall ==
    /\ zpc = "call"
    /\ zret' = z_fix(geom)
    /\ zpc' = "returned"
    /\ UNCHANGED <<geom, mainVars, rVars>>

NextZFix == ZFixCall

SpecZFix == InitZFix /\ [][NextZFix]_vars

(***************************************************************************)
(* rename on its own: applied to df, then to its own result.               *)
(***************************************************************************)
InitRename ==
    /\ rpc = "call"
    /\ df \in Tables
    /\ ret1 = NoGdf
    /\ ret2 = NoGdf
    /\ IdleMain /\ IdleZ

RenameOnce ==
    /\ rpc = "call"
    /\ ret1' = rename(df)
    /\ rpc' = "once"
    /\ UNCHANGED <<df, ret2, mainVars, zVars>>

RenameTwice ==
    /\ rpc = "once"
    /\ ret2' = rename(ret1)
    /\ rpc' = "twice"
    /\ UNCHANGED <<df, ret1, mainVars, zVars>>

NextRename == RenameOnce \/ RenameTwice

SpecRename == InitRename /\ [][NextRename]_vars

(***************************************************************************)
(* Properties of z_fix (SpecZFix).                                         *)
(***************************************************************************)
CorrectedTypes == {"Point", "LineString", "MultiPoint", "MultiLineString"}

\* the coordinate sequences of the parts of a geometry, in order
PartsOf(g) ==
    IF "coords" \in DOMAIN g THEN <<g.coords>>
    ELSE [i \in DOMAIN g.geoms |-> g.geoms[i].coords]
PartTypes(g) ==
    IF "coords" \in DOMAIN g THEN <<g.type>>
    ELSE [i \in DOMAIN g.geoms |-> g.geoms[i].type]

\* the geoid undulation at the geographic position of (x, y)
UndulationAt(x, y) ==
    LET lonlat == to_wgs84_transform(x, y) IN GeoidGrid(lonlat[1], lonlat[2])

\* C1: z_fix of a Point, LineString, MultiPoint or MultiLineString with Z is
\* a geometry of the same variant, with the same parts and as many
\* coordinates in each, where each (x, y, z) has become (x, y, z + N(x, y)).
C1_ZFixAddsUndulation ==
    (zpc = "returned" /\ has_z(geom) /\ geom.type \in CorrectedTypes) =>
        /\ zret.type = geom.type
        /\ PartTypes(zret) = PartTypes(geom)
        /\ DOMAIN PartsOf(zret) = DOMAIN PartsOf(geom)
        /\ \A i \in DOMAIN PartsOf(geom) :
              /\ DOMAIN PartsOf(zret)[i] = DOMAIN PartsOf(geom)[i]
              /\ \A j \in DOMAIN PartsOf(geom)[i] :
                    LET c == PartsOf(geom)[i][j]
                    IN  PartsOf(zret)[i][j] =
                            <<c[1], c[2], c[3] + UndulationAt(c[1], c[2])>>

C1_Witness ==
    /\ zpc = "returned"
    /\ geom.type = "MultiLineString"
    /\ has_z(geom)
    /\ Len(geom.geoms) = MaxParts
    /\ geom.geoms[1] # geom.geoms[2]
    /\ zret # geom

\* C2: z_fix returns its argument unchanged when the geometry has no Z, and
\* when its variant is none of Point, LineString, MultiPoint, MultiLineString.
C2_ZFixIdentityOutsideDomain ==
    (zpc = "returned" /\ (~has_z(geom) \/ geom.type \notin CorrectedTypes)) =>
        zret = geom

C2_Witness ==
    /\ zpc = "returned"
    /\ geom.type = "Polygon"
    /\ has_z(geom)
    /\ zret = geom

(***************************************************************************)
(* Properties of the field rename (SpecRename).                            *)
(***************************************************************************)
\* C3: every column whose name is a key of RENAME_FIELDS is carried under
\* the mapped name, every other column under its own name, all with their
\* values; no column is added or dropped.
C3_RenameCarriesFields ==
    rpc # "call" =>
        /\ DOMAIN ret1.columns = DOMAIN df.columns
        /\ ret1.data = df.data
        /\ \A i \in DOMAIN df.columns :
              /\ df.columns[i] \in RenameKeys =>
                    ret1.columns[i] = RENAME_FIELDS[df.columns[i]]
              /\ df.columns[i] \notin RenameKeys =>
                    ret1.columns[i] = df.columns[i]

C3_Witness ==
    /\ rpc = "once"
    /\ df.columns = <<"l_linkid", "Id">>
    /\ ret1.columns = <<"L_LinkID", "Id">>
    /\ ret1.data = df.data

\* C4: renaming the renamed table changes nothing, and no mapped name is a
\* key of the table.
C4_RenameIdempotent ==
    /\ \A k \in RenameKeys : RENAME_FIELDS[k] \notin RenameKeys
    /\ rpc = "twice" => ret2 = ret1

C4_Witness ==
    /\ rpc = "twice"
    /\ ret1 # df
    /\ \E i \in DOMAIN ret1.columns : ret1.columns[i] = "L_LinkID"
    /\ ret2 = ret1

(***************************************************************************)
(* Properties of the script (Spec).                                        *)
(***************************************************************************)
SrcFile(i) == fs[<<SRC_DIR, shp_files[i]>>]
OutFiles == {n \in Names : fs[<<OUT_DIR, n>>] # Absent}

\* C5: after the Load step the layer carries the target CRS; its geometries
\* are those of the file when the file has no CRS or the target CRS, and
\* their reprojection otherwise; every dataset in OUT_DIR has the target CRS.
C5_LoadNormalizesCRS ==
    /\ pc = "zfix" =>
          LET src == SrcFile(idx)
          IN  /\ gdf.crs = CRS_TARGET
              /\ gdf.columns = src.columns /\ gdf.data = src.data
              /\ src.crs \in {NoCRS, CRS_TARGET} => gdf.geometry = src.geometry
              /\ src.crs \notin {NoCRS, CRS_TARGET} =>
                    /\ DOMAIN gdf.geometry = DOMAIN src.geometry
                    /\ \A i \in DOMAIN src.geometry :
                          /\ gdf.geometry[i].type = src.geometry[i].type
                          /\ PartsOf(gdf.geometry[i]) =
                                [k \in DOMAIN PartsOf(src.geometry[i]) |->
                                    [j \in DOMAIN PartsOf(src.geometry[i])[k] |->
                                        transform_xy(src.crs,
                                            PartsOf(src.geometry[i])[k][j])]]
    /\ \A n \in OutFiles :
          fs[<<OUT_DIR, n>>].kind = "layer" => fs[<<OUT_DIR, n>>].crs = CRS_TARGET

C5_Witness ==
    /\ pc = "zfix"
    /\ SrcFile(idx).crs = CRS_OTHER
    /\ gdf.crs = CRS_TARGET
    /\ gdf.geometry # SrcFile(idx).geometry
    /\ OutFiles # {}

\* C6: no step changes a file of SRC_DIR; every path a step changes is in
\* OUT_DIR.
C6_InputsUntouched ==
    [][\A p \in Paths : fs'[p] # fs[p] => p[1] = OUT_DIR /\ p[1] # SRC_DIR]_vars

C6_Witness ==
    /\ pc = "done"
    /\ Len(shp_files) = MaxFiles
    /\ fs[<<SRC_DIR, <<65>> \o ShpSuffix>>] # Absent
    /\ fs[<<OUT_DIR, <<65>> \o ShpSuffix>>] # Absent
    /\ fs[<<OUT_DIR, <<65>> \o ShpSuffix>>] # fs[<<SRC_DIR, <<65>> \o ShpSuffix>>]

\* C7: when the run has completed, OUT_DIR holds one file per input file,
\* named by the uppercased stem and the suffix of the input.
C7_OneOutputPerInput ==
    pc = "done" =>
        /\ Cardinality(OutFiles) = Len(shp_files)
        /\ \A i \in DOMAIN shp_files : out_path(shp_files[i])[2] \in OutFiles

\* C8: when the grid is missing or no input matches, the script aborts with
\* a non-zero status from its startup checks, having read, converted and
\* written nothing.
C8_FatalStartup ==
    /\ [](~gtx_exists => pc \in {"start", "aborted"} /\ shp_files = <<>>)
    /\ []((~gtx_exists \/ Matching = {}) =>
            /\ pc \in {"start", "main", "aborted"}
            /\ pc = "aborted" => exit_status = "nonzero"
            /\ pc # "aborted" => exit_status = "running"
            /\ gdf = NoGdf
            /\ stdout = <<>>
            /\ OutFiles = {})
    /\ [][/\ (pc = "start" /\ ~gtx_exists) => pc' = "aborted"
          /\ (pc = "main" /\ Matching = {}) => pc' = "aborted"
          /\ pc = "aborted" => UNCHANGED vars]_vars

C8_Witness ==
    /\ pc = "aborted"
    /\ ~gtx_exists
    /\ Matching # {}
    /\ exit_status = "nonzero"

\* C9: the steps of a file run in the order Load, Z-correct, Rename, Write,
\* Z-correction on a layer in the target CRS; the files are taken in the
\* order of shp_files and a file is loaded only by the step that completes
\* the Write of the file before it.
C9_StrictlySequential ==
    /\ [](pc \in {"zfix", "rename", "write"} => gdf.crs = CRS_TARGET)
    /\ [](\A k \in DOMAIN stdout :
            IF k = 2 * Len(shp_files) + 1
            THEN stdout[k] = <<"done", <<>>>>
            ELSE IF k % 2 = 1
            THEN stdout[k] = <<"start", shp_files[(k + 1) \div 2]>>
            ELSE stdout[k] = <<"saved", out_path(shp_files[k \div 2])[2]>>)
    /\ [][pc' # pc =>
            /\ pc' = "load" =>
                  \/ pc = "main" /\ idx' = 1
                  \/ /\ pc = "write"
                     /\ idx' = idx + 1
                     /\ idx' <= Len(shp_files)
                     /\ fs'[out_path(shp_files[idx])] = gdf
            /\ pc' = "zfix" => pc = "load" /\ idx' = idx
            /\ pc' = "rename" => pc = "zfix" /\ idx' = idx
            /\ pc' = "write" => pc = "rename" /\ idx' = idx
            /\ pc' = "finish" =>
                  /\ pc = "write"
                  /\ idx = Len(shp_files)
                  /\ fs'[out_path(shp_files[idx])] = gdf
            /\ idx' # idx => pc' = "load"
            /\ shp_files' # shp_files => pc = "main"]_vars

C9_Witness ==
    /\ pc = "zfix"
    /\ idx = MaxFiles
    /\ Len(stdout) = 2 * MaxFiles - 1
    /\ fs[out_path(shp_files[1])] # Absent

\* what the four steps make of a file
Converted(file) ==
    LET loaded == normalize_crs(file)
    IN  rename([loaded EXCEPT !.geometry = apply_z_fix(loaded.geometry)])

\* C10: when a step of the k-th file fails the run ends there with a
\* non-zero status and without the closing message, no later file has been
\* started, and the outputs of the files before k are as they were written.
C10_AbortKeepsEarlierOutputs ==
    pc = "crashed" =>
        /\ exit_status = "nonzero"
        /\ \A k \in DOMAIN stdout : stdout[k][1] # "done"
        /\ \A i \in DOMAIN shp_files :
              i > idx => \A k \in DOMAIN stdout : stdout[k] # <<"start", shp_files[i]>>
        /\ \A j \in 1..(idx - 1) : fs[out_path(shp_files[j])] = Converted(SrcFile(j))

====
